---- MODULE Spec2Model ----
(***************************************************************************)
(* Model of the SSUR3 dashboard script                                     *)
(* (app_web_streamlit_para_mostrar_y_calcular_datos_desde_excel.py).       *)
(*                                                                         *)
(* The script is re-executed top to bottom on every user interaction.  A   *)
(* pass reads the sidebar, loads the workbook through the memoized         *)
(* load_excel, picks a sheet, maps columns, builds the `base` table and    *)
(* the `totales` row, renders the tables and offers the CSV downloads.     *)
(*                                                                         *)
(* Floats are modelled as exact rationals plus NaN and the two infinities; *)
(* text cells are sequences of one-character strings.                      *)
(***************************************************************************)
EXTENDS Integers, Sequences, FiniteSets, TLC

VARIABLES
    pc,        \* position of the running pass in the script
    mode,      \* sidebar radio "Origen de datos"
    excel_obj, \* the data source of the pass: nothing, an upload or a path
    disk,      \* content of the file stored at LocalPath
    cache,     \* memo of load_excel: argument key -> returned sheets
    sheets,    \* result of load_excel in this pass
    sheet,     \* selected sheet name
    df_raw,    \* the selected sheet's table
    mapping,   \* the nine column selections of the sidebar
    base,      \* the derived per-row table
    totales,   \* the aggregate row
    out,       \* what the pass has put on the page, in order
    passes     \* number of passes started

vars == <<pc, mode, excel_obj, disk, cache, sheets, sheet, df_raw, mapping,
          base, totales, out, passes>>

----------------------------------------------------------------------------
(* Bounds of the model                                                     *)

MaxLen == 2        \* longest column drawn for the normalizer
MaxRows == 2       \* most rows drawn for the metrics calculator
MaxPasses == 2     \* passes of the script in one session

----------------------------------------------------------------------------
(* Floats: exact rationals n/d in lowest terms, NaN, +inf, -inf            *)

Abs(x) == IF x < 0 THEN -x ELSE x

RECURSIVE GCD(_, _)
GCD(a, b) == IF b = 0 THEN a ELSE GCD(b, a % b)

NaN == [k |-> "nan", n |-> 0, d |-> 1]
PosInf == [k |-> "inf", n |-> 1, d |-> 1]
NegInf == [k |-> "inf", n |-> -1, d |-> 1]

Rat(n, d) ==
    LET g == GCD(Abs(n), Abs(d))
        sg == IF d < 0 THEN -1 ELSE 1
    IN  [k |-> "num", n |-> (sg * n) \div g, d |-> (sg * d) \div g]

Num(n) == Rat(n, 1)

IsNum(x) == x.k = "num"
IsNaN(x) == x.k = "nan"
IsInf(x) == x.k = "inf"

\* x + y and x - y; the model only adds finite values
FAdd(x, y) ==
    IF IsNum(x) /\ IsNum(y) THEN Rat(x.n * y.d + y.n * x.d, x.d * y.d) ELSE NaN

FSub(x, y) ==
    IF IsNum(x) /\ IsNum(y) THEN Rat(x.n * y.d - y.n * x.d, x.d * y.d) ELSE NaN

\* IEEE division as numpy evaluates it: x/0 is an infinity, 0/0 is NaN
FDiv(x, y) ==
    IF ~(IsNum(x) /\ IsNum(y)) THEN NaN
    ELSE IF y.n = 0
         THEN IF x.n = 0 THEN NaN ELSE IF x.n > 0 THEN PosInf ELSE NegInf
         ELSE Rat(x.n * y.d, x.d * y.n)

\* x > y; every comparison with NaN is false
FGt(x, y) == IsNum(x) /\ IsNum(y) /\ x.n * y.d > y.n * x.d

FAbs(x) == IF IsNum(x) THEN Rat(Abs(x.n), x.d) ELSE x

\* Series.eq(0)
EqZero(x) == IsNum(x) /\ x.n = 0

\* truth value of a float scalar: only 0.0 is falsy (NaN is truthy)
Truthy(x) == ~EqZero(x)

RECURSIVE SumFrom(_, _)
SumFrom(s, i) ==
    IF i > Len(s) THEN Num(0)
    ELSE IF IsNum(s[i]) THEN FAdd(s[i], SumFrom(s, i + 1)) ELSE SumFrom(s, i + 1)

\* Series.sum(skipna=True)
Sum(s) == SumFrom(s, 1)

CountDefined(s) == Cardinality({i \in 1..Len(s) : IsNum(s[i])})

\* Series.mean(skipna=True)
Mean(s) ==
    IF CountDefined(s) = 0 THEN NaN ELSE FDiv(Sum(s), Num(CountDefined(s)))

----------------------------------------------------------------------------
(* Cells of a sheet: a text, or a float (a blank cell is the float NaN)    *)

Str(s) == [t |-> "str", s |-> s, v |-> NaN]
NumCell(v) == [t |-> "num", s |-> <<>>, v |-> v]
Blank == NumCell(NaN)

Digits == {"0", "1", "2", "3", "4", "5", "6", "7", "8", "9"}

DigitVal(c) ==
    CASE c = "0" -> 0 [] c = "1" -> 1 [] c = "2" -> 2 [] c = "3" -> 3
      [] c = "4" -> 4 [] c = "5" -> 5 [] c = "6" -> 6 [] c = "7" -> 7
      [] c = "8" -> 8 [] c = "9" -> 9

\* str.replace(old, new, regex=False) with new of length 0 or 1
RECURSIVE Replace(_, _, _)
Replace(s, old, new) ==
    IF s = <<>> THEN <<>>
    ELSE (IF Head(s) = old THEN new ELSE <<Head(s)>>) \o Replace(Tail(s), old, new)

RECURSIVE Pow10(_)
Pow10(e) == IF e = 0 THEN 1 ELSE 10 * Pow10(e - 1)

RECURSIVE DigitsValue(_)
DigitsValue(s) ==
    IF s = <<>> THEN 0
    ELSE DigitsValue(SubSeq(s, 1, Len(s) - 1)) * 10 + DigitVal(s[Len(s)])

\* the float a text parses to under pd.to_numeric(errors="coerce"):
\* [-]digits[.digits] with at least one digit, anything else is NaN
ParseFloat(s) ==
    LET neg == s # <<>> /\ Head(s) = "-"
        body == IF neg THEN Tail(s) ELSE s
        dots == {i \in 1..Len(body) : body[i] = "."}
        wellformed ==
            /\ \A i \in 1..Len(body) : body[i] \in Digits \cup {"."}
            /\ Cardinality(dots) <= 1
            /\ \E i \in 1..Len(body) : body[i] \in Digits
    IN  IF ~wellformed THEN NaN
        ELSE LET pos == IF dots = {} THEN Len(body) + 1 ELSE CHOOSE i \in dots : TRUE
                 mant == Replace(body, ".", <<>>)
                 frac == Len(body) - pos
                 e == IF frac < 0 THEN 0 ELSE frac
             IN  Rat((IF neg THEN -1 ELSE 1) * DigitsValue(mant), Pow10(e))

\* a coercion that fills what does not parse with 0 instead of NaN
ToNumeric_fill0(c) ==
    LET v == IF c.t = "str" THEN ParseFloat(c.s) ELSE c.v
    IN  IF IsNaN(v) THEN Num(0) ELSE v

\* pd.to_numeric(series, errors="coerce"), one element
ToNumeric(c) == IF c.t = "str" THEN ParseFloat(c.s) ELSE c.v

\* a column holding any text has dtype object
IsObject(series) == \E i \in 1..Len(series) : series[i].t = "str"

\* a cleaning that leaves the decimal comma in place
StrClean_keepcomma(c) ==
    IF c.t = "str"
    THEN Str(Replace(Replace(c.s, "%", <<>>), ".", <<>>))
    ELSE Blank

\* one element of .str.replace("%","").str.replace(".","").str.replace(",","."):
\* the .str accessor maps every non-text element to NaN
StrClean(c) ==
    IF c.t = "str"
    THEN Str(Replace(Replace(Replace(c.s, "%", <<>>), ".", <<>>), ",", <<".">>))
    ELSE Blank

Threshold == Rat(3, 2)

\* the rescaling test of to_pct: mean truthy and mean > 1.5
Rescales(m) == Truthy(m) /\ FGt(m, Threshold)

\* lines 47-50: the cleaned and coerced column
ParsedValues(series) ==
    LET s1 == IF IsObject(series)
              THEN [i \in 1..Len(series) |-> StrClean(series[i])]
              ELSE series
    IN  [i \in 1..Len(series) |-> ToNumeric(s1[i])]

to_pct(series) ==
    LET s == ParsedValues(series)
    IN  IF Rescales(Mean(s))
        THEN [i \in 1..Len(series) |-> FDiv(s[i], Num(100))]
        ELSE s

----------------------------------------------------------------------------
(* Data frames: ordered column labels with one sequence of cells each      *)

NoDf == [cols |-> <<>>, data |-> <<>>]

HasCol(df, name) == \E i \in 1..Len(df.cols) : df.cols[i] = name

ColIndex(df, name) ==
    CHOOSE i \in 1..Len(df.cols) :
        /\ df.cols[i] = name
        /\ \A j \in 1..(i - 1) : df.cols[j] # name

\* df[name]
Col(df, name) == df.data[ColIndex(df, name)]

NRows(df) == IF df.data = <<>> THEN 0 ELSE Len(df.data[1])

\* DataFrame.empty
IsEmpty(df) == Len(df.cols) = 0 \/ NRows(df) = 0

\* df[name] = values: replaces the column, or appends it when the label is new
SetCol(df, name, values) ==
    IF HasCol(df, name)
    THEN [df EXCEPT !.data[ColIndex(df, name)] = values]
    ELSE [cols |-> Append(df.cols, name), data |-> Append(df.data, values)]

\* df[[names]] when every name is a label of df
Select(df, names) ==
    [cols |-> names, data |-> [i \in 1..Len(names) |-> Col(df, names[i])]]

\* df[[names]] raises KeyError when a name is no label of df
SelectRaises(df, names) == \E i \in 1..Len(names) : ~HasCol(df, names[i])

\* df.columns = labels
Relabel(df, labels) == [df EXCEPT !.cols = labels]

----------------------------------------------------------------------------
(* The files a session can meet                                            *)

T(s) == Str(s)

StoreIds == <<T(<<"T", "1">>), T(<<"T", "2">>)>>

\* a workbook with a two-column data sheet and an empty sheet
WbVentas ==
    << [name |-> "Datos",
        df |-> [cols |-> <<"COD", "VAL">>,
                data |-> <<StoreIds, <<NumCell(Num(1000)), NumCell(Num(0))>>>>]],
       [name |-> "Vacia", df |-> NoDf] >>

\* the same file after it was edited: other amounts, one of them a text
WbVentasEditado ==
    << [name |-> "Datos",
        df |-> [cols |-> <<"COD", "VAL">>,
                data |-> <<StoreIds, <<NumCell(Num(500)), T(<<"1", "2", ",", "3", "%">>)>>>>]] >>

Readable == {"ventas", "ventas_editado"}
Contents == Readable \cup {"corrupto"}

LocalPath == "datos.xlsx"
Paths == {"", LocalPath}

\* pd.ExcelFile(file) and the loop over its sheets, for a readable file
ReadExcel(content) ==
    IF content = "ventas" THEN WbVentas ELSE WbVentasEditado

NoSource == [kind |-> "none", val |-> ""]
Upload(content) == [kind |-> "upload", val |-> content]
LocalFile(p) == [kind |-> "path", val |-> p]

\* the bytes load_excel reads for a data source
ContentOf(src) == IF src.kind = "upload" THEN src.val ELSE disk

\* the key st.cache_data derives from the argument of load_excel: the path
\* text for a path, the name and bytes for an uploaded file
CacheKey(src) == src

Cached(src) == \E e \in cache : e.key = CacheKey(src)

CachedValue(src) == (CHOOSE e \in cache : e.key = CacheKey(src)).value

NoSheets == <<>>

NoMapping ==
    [col_id |-> "", col_name |-> "", col_w41 |-> "", col_w42 |-> "",
     col_w43 |-> "", col_w44 |-> "", col_p1 |-> "", col_p2 |-> "", col_obj |-> ""]

Msg(kind) == [kind |-> kind, name |-> "", df |-> NoDf]
Table(name, df) == [kind |-> "dataframe", name |-> name, df |-> df]
Download(name, df) == [kind |-> "download", name |-> name, df |-> df]

----------------------------------------------------------------------------
(* The pass: the script from its first line to its last                    *)

Modes == {"Subir Excel", "Ruta local"}

week_num == 44
month_label == "OCTUBRE"

Halted == {"stop_info", "stop_error", "stop_warning", "raised", "done"}

\* lines 73-86: the sidebar's data source; without one the pass stops
SelectSource ==
    /\ pc = "start"
    /\ \E m \in Modes, u \in Contents \cup {""}, p \in Paths :
          LET obj == IF m = "Subir Excel"
                     THEN (IF u # "" THEN Upload(u) ELSE NoSource)
                     ELSE (IF p # "" THEN LocalFile(p) ELSE NoSource)
          IN  /\ mode' = m
              /\ excel_obj' = obj
              /\ IF obj = NoSource
                 THEN /\ out' = Append(out, Msg("info"))
                      /\ pc' = "stop_info"
                 ELSE /\ out' = out
                      /\ pc' = "source"
    /\ UNCHANGED <<disk, cache, sheets, sheet, df_raw, mapping, base, totales, passes>>

\* a handler that reports the error and lets the script go on
AfterLoadError_nostop == "loaded"

\* where the pass goes when load_excel raises: st.error, then st.stop()
AfterLoadError == "stop_error"

\* lines 88-92 with load_excel (19-28): a memoized result is returned without
\* reading the file; a result is stored only when the read succeeds
LoadExcel ==
    /\ pc = "source"
    /\ IF Cached(excel_obj)
       THEN /\ sheets' = CachedValue(excel_obj)
            /\ pc' = "loaded"
            /\ UNCHANGED <<cache, out>>
       ELSE IF ContentOf(excel_obj) \in Readable
       THEN /\ sheets' = ReadExcel(ContentOf(excel_obj))
            /\ cache' = cache \cup {[key |-> CacheKey(excel_obj), value |-> sheets']}
            /\ pc' = "loaded"
            /\ out' = out
       ELSE /\ out' = Append(out, Msg("error"))
            /\ pc' = AfterLoadError
            /\ UNCHANGED <<cache, sheets>>
    /\ UNCHANGED <<mode, excel_obj, disk, sheet, df_raw, mapping, base, totales, passes>>

\* lines 94-99: the sheet selector; an empty sheet stops the pass
SelectSheet ==
    /\ pc = "loaded"
    /\ \E i \in 1..Len(sheets) :
          /\ sheet' = sheets[i].name
          /\ df_raw' = sheets[i].df
          /\ IF IsEmpty(sheets[i].df)
             THEN /\ out' = Append(out, Msg("warning"))
                  /\ pc' = "stop_warning"
             ELSE /\ out' = out
                  /\ pc' = "sheet"
    /\ UNCHANGED <<mode, excel_obj, disk, cache, sheets, mapping, base, totales, passes>>

ColSet(df) == {df.cols[i] : i \in 1..Len(df.cols)}

\* lines 103-118: nine selectors, each over every column of the sheet
MapColumns ==
    /\ pc = "sheet"
    /\ \E m \in [DOMAIN NoMapping -> ColSet(df_raw)] :
          mapping' = m
    /\ pc' = "mapped"
    /\ UNCHANGED <<mode, excel_obj, disk, cache, sheets, sheet, df_raw, base, totales, out, passes>>

\* line 127: the dict literal {col_id: ..., col_name: ...}; with equal keys the
\* later entry replaces the earlier one
RenameDict(m) == (m.col_name :> "NOM_TDA") @@ (m.col_id :> "COD_TDA")

\* DataFrame.rename(columns=d)
Rename(df, d) ==
    [df EXCEPT !.cols = [i \in 1..Len(df.cols) |->
        IF df.cols[i] \in DOMAIN d THEN d[df.cols[i]] ELSE df.cols[i]]]

\* lines 126-131: the two store columns, then the four normalized weeks
BaseWithWeeks(df, m) ==
    LET b0 == Rename(Select(df, <<m.col_id, m.col_name>>), RenameDict(m))
        b1 == SetCol(b0, "W0", to_pct(Col(df, m.col_w44)))
        b2 == SetCol(b1, "W-1", to_pct(Col(df, m.col_w43)))
        b3 == SetCol(b2, "W-2", to_pct(Col(df, m.col_w42)))
    IN  SetCol(b3, "W-3", to_pct(Col(df, m.col_w41)))

PrepareBase ==
    /\ pc = "mapped"
    /\ base' = BaseWithWeeks(df_raw, mapping)
    /\ pc' = "weeks"
    /\ UNCHANGED <<mode, excel_obj, disk, cache, sheets, sheet, df_raw, mapping, totales, out, passes>>

\* pd.to_numeric(column, errors="coerce")
ToNumericCol(c) == [i \in 1..Len(c) |-> ToNumeric(c[i])]

\* the plain division, without the zero guard
PctDif_unguarded(dif, p2) == FDiv(dif, p2)

\* line 139, one row: np.where(PERIODO_2.eq(0), nan, DIF / PERIODO_2)
PctDif(dif, p2) == IF EqZero(p2) THEN NaN ELSE FDiv(dif, p2)

\* line 145, one row: np.where(OBJETIVO.eq(0), nan, PERIODO_1 / OBJETIVO)
PctObj(p1, obj) == IF EqZero(obj) THEN NaN ELSE FDiv(p1, obj)

\* the gap taken the other way round
DifObj_flipped(obj, p1) == FSub(p1, obj)

\* line 144, one row
DifObj(obj, p1) == FSub(obj, p1)

\* lines 134-145
BaseWithMonth(b, df, m) ==
    LET p1 == ToNumericCol(Col(df, m.col_p1))
        p2 == ToNumericCol(Col(df, m.col_p2))
        n == Len(p1)
        b1 == SetCol(b, "PERIODO_1", p1)
        b2 == SetCol(b1, "PERIODO_2", p2)
        b3 == SetCol(b2, "DIF",
                     [i \in 1..n |-> FSub(Col(b2, "PERIODO_1")[i], Col(b2, "PERIODO_2")[i])])
        b4 == SetCol(b3, "%DIF",
                     [i \in 1..n |-> PctDif(Col(b3, "DIF")[i], Col(b3, "PERIODO_2")[i])])
        obj == ToNumericCol(Col(df, m.col_obj))
        b5 == SetCol(b4, "OBJETIVO", obj)
        b6 == SetCol(b5, "DIF_OBJ_P1",
                     [i \in 1..n |-> DifObj(Col(b5, "OBJETIVO")[i], Col(b5, "PERIODO_1")[i])])
    IN  SetCol(b6, "%OBJ",
               [i \in 1..n |-> PctObj(Col(b6, "PERIODO_1")[i], Col(b6, "OBJETIVO")[i])])

ComputeMonth ==
    /\ pc = "weeks"
    /\ base' = BaseWithMonth(base, df_raw, mapping)
    /\ pc' = "month"
    /\ UNCHANGED <<mode, excel_obj, disk, cache, sheets, sheet, df_raw, mapping, totales, out, passes>>

\* the aggregate taken as the mean of the per-row percentages
TotalPctDif_mean(b) == Mean(Col(b, "%DIF"))

\* lines 158-161
TotalPctDif(b) ==
    IF Truthy(Sum(Col(b, "PERIODO_2")))
    THEN FDiv(FSub(Sum(Col(b, "PERIODO_1")), Sum(Col(b, "PERIODO_2"))),
              Sum(Col(b, "PERIODO_2")))
    ELSE NaN

\* lines 164-167
TotalPctObj(b) ==
    IF Truthy(Sum(Col(b, "OBJETIVO")))
    THEN FDiv(Sum(Col(b, "PERIODO_1")), Sum(Col(b, "OBJETIVO")))
    ELSE NaN

\* lines 148-168
Totales(b) ==
    [cols |-> <<"COD_TDA", "NOM_TDA", "W0", "W-1", "W-2", "W-3", "PERIODO_1",
                "PERIODO_2", "DIF", "%DIF", "OBJETIVO", "DIF_OBJ_P1", "%OBJ">>,
     data |-> << <<T(<<"T", "O", "T", "A", "L">>)>>,
                 <<T(<<"T", "o", "d", "a", "s", " ", "l", "a", "s", " ",
                        "t", "i", "e", "n", "d", "a", "s">>)>>,
                 <<Mean(Col(b, "W0"))>>,
                 <<Mean(Col(b, "W-1"))>>,
                 <<Mean(Col(b, "W-2"))>>,
                 <<Mean(Col(b, "W-3"))>>,
                 <<Sum(Col(b, "PERIODO_1"))>>,
                 <<Sum(Col(b, "PERIODO_2"))>>,
                 <<FSub(Sum(Col(b, "PERIODO_1")), Sum(Col(b, "PERIODO_2")))>>,
                 <<TotalPctDif(b)>>,
                 <<Sum(Col(b, "OBJETIVO"))>>,
                 <<FSub(Sum(Col(b, "OBJETIVO")), Sum(Col(b, "PERIODO_1")))>>,
                 <<TotalPctObj(b)>> >>]

ComputeTotals ==
    /\ pc = "month"
    /\ totales' = Totales(base)
    /\ pc' = "totals"
    /\ UNCHANGED <<mode, excel_obj, disk, cache, sheets, sheet, df_raw, mapping, base, out, passes>>

\* lines 177-178
Semanas(b) ==
    Relabel(Select(b, <<"COD_TDA", "NOM_TDA", "W-3", "W-2", "W-1", "W0">>),
            <<"COD_TDA", "NOM_TDA", ToString(week_num - 3), ToString(week_num - 2),
              ToString(week_num - 1), ToString(week_num)>>)

\* lines 185-186
Mes(b) ==
    Relabel(Select(b, <<"COD_TDA", "NOM_TDA", "PERIODO_1", "PERIODO_2", "DIF", "%DIF">>),
            <<"COD_TDA", "NOM_TDA", "PERIODO 1", "PERIODO 2", "DIFERENCIA", "% DIFERENCIA">>)

\* lines 199-200
ObjDf(b) ==
    Relabel(Select(b, <<"COD_TDA", "NOM_TDA", "OBJETIVO", "DIF_OBJ_P1", "%OBJ">>),
            <<"COD_TDA", "NOM_TDA", "OBJETIVO DE " \o month_label,
              "DIFER. CON PERIODO 1", "% OBJETIVO CONSEGUIDO">>)

\* lines 173-208: the three tables; the first selection of columns raises
\* KeyError when base has no column labelled COD_TDA
RenderTables ==
    /\ pc = "totals"
    /\ IF SelectRaises(base, <<"COD_TDA", "NOM_TDA", "W-3", "W-2", "W-1", "W0">>)
       THEN /\ out' = Append(out, Msg("exception"))
            /\ pc' = "raised"
       ELSE /\ out' = out \o <<Table("semanas", Semanas(base)),
                               Table("mes", Mes(base)),
                               Table("objdf", ObjDf(base))>>
            /\ pc' = "tables"
    /\ UNCHANGED <<mode, excel_obj, disk, cache, sheets, sheet, df_raw, mapping, base, totales, passes>>

\* lines 210-245: the aggregate row under each table
RenderTotals ==
    /\ pc = "tables"
    /\ out' = out \o
          <<Table("tot_sem", Semanas(totales)),
            Table("mes_tot",
                  Relabel(Select(totales, <<"PERIODO_1", "PERIODO_2", "DIF", "%DIF">>),
                          <<"PERIODO 1", "PERIODO 2", "DIFERENCIA", "% DIFERENCIA">>)),
            Table("obj_tot",
                  Relabel(Select(totales, <<"OBJETIVO", "DIF_OBJ_P1", "%OBJ">>),
                          <<"OBJETIVO DE " \o month_label, "DIFER. CON PERIODO 1",
                            "% OBJETIVO CONSEGUIDO">>))>>
    /\ pc' = "totals_shown"
    /\ UNCHANGED <<mode, excel_obj, disk, cache, sheets, sheet, df_raw, mapping, base, totales, passes>>

\* lines 247-258: the three CSV downloads, the last statements of the script
Downloads ==
    /\ pc = "totals_shown"
    /\ out' = out \o <<Download("comparables_semanas.csv", Semanas(base)),
                       Download("comparable_mes.csv", Mes(base)),
                       Download("evolucion_objetivo.csv", ObjDf(base))>>
    /\ pc' = "done"
    /\ UNCHANGED <<mode, excel_obj, disk, cache, sheets, sheet, df_raw, mapping, base, totales, passes>>

\* any interaction re-executes the script from its first line; the memo of
\* load_excel is the only thing that survives
Rerun ==
    /\ pc \in Halted
    /\ passes < MaxPasses
    /\ pc' = "start"
    /\ excel_obj' = NoSource
    /\ sheets' = NoSheets
    /\ sheet' = ""
    /\ df_raw' = NoDf
    /\ mapping' = NoMapping
    /\ base' = NoDf
    /\ totales' = NoDf
    /\ out' = <<>>
    /\ passes' = passes + 1
    /\ UNCHANGED <<mode, disk, cache>>

\* between two passes the file stored at LocalPath is replaced
FileChanges ==
    /\ pc = "start"
    /\ \E c \in Contents \ {disk} : disk' = c
    /\ UNCHANGED <<pc, mode, excel_obj, cache, sheets, sheet, df_raw, mapping,
                   base, totales, out, passes>>

Init ==
    /\ pc = "start"
    /\ mode = "Subir Excel"
    /\ excel_obj = NoSource
    /\ disk \in Contents
    /\ cache = {}
    /\ sheets = NoSheets
    /\ sheet = ""
    /\ df_raw = NoDf
    /\ mapping = NoMapping
    /\ base = NoDf
    /\ totales = NoDf
    /\ out = <<>>
    /\ passes = 1

Next ==
    \/ SelectSource
    \/ LoadExcel
    \/ SelectSheet
    \/ MapColumns
    \/ PrepareBase
    \/ ComputeMonth
    \/ ComputeTotals
    \/ RenderTables
    \/ RenderTotals
    \/ Downloads
    \/ Rerun
    \/ FileChanges

Spec == Init /\ [][Next]_vars

----------------------------------------------------------------------------
(* The normalizer on its own: a sheet whose ratio column is drawn from a   *)
(* bounded set of cells, mapped, and about to be prepared                  *)

C(s) == Str(s)

RatioCells ==
    { C(<<"1", "2", ",", "3", "%">>),          \* 12,3%
      C(<<"-", "2", "0", ",", "5", "%">>),     \* -20,5%
      C(<<"0", ",", "1", "2", "3">>),          \* 0,123
      C(<<"-", "0", ".", "2", "0", "5">>),     \* -0.205
      C(<<"0", ".", "0", "1", "2">>),          \* 0.012
      C(<<"n", "/", "a">>),                    \* n/a
      NumCell(Rat(1, 20)),                     \* 0.05
      NumCell(Rat(123, 10)),                   \* 12.3
      NumCell(Rat(-41, 2)),                    \* -20.5
      NumCell(Num(0)),
      Blank }

SeqsUpTo(S, n) == UNION {[1..k -> S] : k \in 1..n}

DigitChar(i) == CHOOSE c \in Digits : DigitVal(c) = i

\* store codes T1, T2, ... and store names N1, N2, ...
Codes(n) == [i \in 1..n |-> Str(<<"T", DigitChar(i)>>)]
Names(n) == [i \in 1..n |-> Str(<<"N", DigitChar(i)>>)]

RatioSheet(col) ==
    [cols |-> <<"COD", "NOM", "W">>,
     data |-> <<Codes(Len(col)), Names(Len(col)), col>>]

RatioMapping ==
    [col_id |-> "COD", col_name |-> "NOM", col_w41 |-> "W", col_w42 |-> "W",
     col_w43 |-> "W", col_w44 |-> "W", col_p1 |-> "W", col_p2 |-> "W", col_obj |-> "W"]

\* the state of a pass that has loaded and mapped the uploaded sheet df
Mapped(df, m, at) ==
    /\ pc = at
    /\ mode = "Subir Excel"
    /\ excel_obj = Upload("hoja")
    /\ disk = "corrupto"
    /\ sheets = <<[name |-> "Hoja1", df |-> df]>>
    /\ cache = {[key |-> CacheKey(Upload("hoja")), value |-> sheets]}
    /\ sheet = "Hoja1"
    /\ df_raw = df
    /\ mapping = m
    /\ totales = NoDf
    /\ out = <<>>
    /\ passes = 1

InitPct ==
    \E col \in SeqsUpTo(RatioCells, MaxLen) :
        /\ Mapped(RatioSheet(col), RatioMapping, "mapped")
        /\ base = NoDf

NextPct == PrepareBase

SpecPct == InitPct /\ [][NextPct]_vars

----------------------------------------------------------------------------
(* The metrics calculator on its own: rows of amounts drawn from a bounded *)
(* set, weeks already normalized                                           *)

A(n) == NumCell(Num(n))

NotANumber == Str(<<"n", "/", "a">>)

AmountRows ==
    ({A(0), A(100), NotANumber} \X {A(50), A(0), Blank} \X {A(0), A(400), Blank})
    \cup ({A(1000), A(500)} \X {A(800), A(500)} \X {A(1200), A(400)})

AmountSheet(rows) ==
    LET n == Len(rows)
    IN  [cols |-> <<"COD", "NOM", "W", "P1", "P2", "OBJ">>,
         data |-> <<Codes(n), Names(n),
                    [i \in 1..n |-> Str(<<"1", "0", "%">>)],
                    [i \in 1..n |-> rows[i][1]],
                    [i \in 1..n |-> rows[i][2]],
                    [i \in 1..n |-> rows[i][3]]>>]

AmountMapping ==
    [col_id |-> "COD", col_name |-> "NOM", col_w41 |-> "W", col_w42 |-> "W",
     col_w43 |-> "W", col_w44 |-> "W", col_p1 |-> "P1", col_p2 |-> "P2", col_obj |-> "OBJ"]

InitMetrics ==
    \E rows \in SeqsUpTo(AmountRows, MaxRows) :
        /\ Mapped(AmountSheet(rows), AmountMapping, "weeks")
        /\ base = BaseWithWeeks(AmountSheet(rows), AmountMapping)

NextMetrics == ComputeMonth \/ ComputeTotals

SpecMetrics == InitMetrics /\ [][NextMetrics]_vars

----------------------------------------------------------------------------
(* Properties of the normalizer (checked under SpecPct)                    *)

RatioColumn == Col(df_raw, "W")
W0 == Col(base, "W0")

Hundredth(s) == [i \in 1..Len(s) |-> FDiv(s[i], Num(100))]

AllText(series) == \A i \in 1..Len(series) : series[i].t = "str"

\* C1: the column is divided by 100 exactly when the absolute value of the
\* mean of its parsed values exceeds 1.5, negative means included.
C1_RescaleByAbsoluteMean ==
    pc = "weeks" =>
        LET s == ParsedValues(RatioColumn)
        IN  IF FGt(FAbs(Mean(s)), Threshold)
            THEN W0 = Hundredth(s)
            ELSE W0 = s

\* the parse of a text under either decimal convention: a comma, when there
\* is one, is the decimal separator; otherwise the point is
PlainParse(s) ==
    LET s0 == Replace(s, "%", <<>>)
    IN  IF \E i \in 1..Len(s0) : s0[i] = ","
        THEN ParseFloat(Replace(Replace(s0, ".", <<>>), ",", <<".">>))
        ELSE ParseFloat(s0)

PlainParseCol(series) == [i \in 1..Len(series) |-> PlainParse(series[i].s)]

CommaParse(s) ==
    ParseFloat(Replace(Replace(Replace(s, "%", <<>>), ".", <<>>), ",", <<".">>))

CommaParseCol(series) == [i \in 1..Len(series) |-> CommaParse(series[i].s)]

C3_NumericCellsPassThrough ==
    pc = "weeks" =>
        /\ Len(W0) = Len(RatioColumn)
        /\ \A i \in 1..Len(RatioColumn) :
              LET c == RatioColumn[i]
              IN  /\ (c.t = "num" /\ IsNum(c.v))
                        => W0[i] \in {c.v, FDiv(c.v, Num(100))}
                  /\ IsNaN(W0[i])
                        => (c = Blank \/ (c.t = "str" /\ IsNaN(CommaParse(c.s))))

----------------------------------------------------------------------------
(* Properties of the metrics calculator (checked under SpecMetrics)        *)

RawP1 == Col(df_raw, "P1")
RawP2 == Col(df_raw, "P2")
RawObj == Col(df_raw, "OBJ")

MonthDone == pc \in {"month", "totals"}

\* a cell that does not coerce to a number: a blank, or a text with a
\* character that no number has
FailsCoercion(c) ==
    \/ c = Blank
    \/ c.t = "str" /\ \E i \in 1..Len(c.s) : c.s[i] \notin Digits \cup {"-", "."}

Tot(name) == Col(totales, name)[1]

\* C4: a row whose period2 is 0 has an undefined %DIF, a row whose target is
\* 0 has an undefined %OBJ, and no percent field, per row or aggregate, is
\* ever an infinity.
C4_ZeroDenominatorUndefined ==
    /\ MonthDone =>
          \A i \in 1..NRows(df_raw) :
              /\ RawP2[i] = A(0) => IsNaN(Col(base, "%DIF")[i])
              /\ RawObj[i] = A(0) => IsNaN(Col(base, "%OBJ")[i])
              /\ ~IsInf(Col(base, "%DIF")[i])
              /\ ~IsInf(Col(base, "%OBJ")[i])
    /\ pc = "totals" => ~IsInf(Tot("%DIF")) /\ ~IsInf(Tot("%OBJ"))

C4_Witness ==
    /\ pc = "month"
    /\ \E i \in 1..NRows(df_raw) :
          /\ RawP2[i] = A(0) /\ RawP1[i] = A(100) /\ IsNaN(Col(base, "%DIF")[i])
    /\ \E i \in 1..NRows(df_raw) :
          /\ RawObj[i] = A(0) /\ RawP1[i] = A(100) /\ IsNaN(Col(base, "%OBJ")[i])

\* the total of the defined values of a column, taken from its last row up
RECURSIVE DefinedTotal(_)
DefinedTotal(s) ==
    IF s = <<>> THEN Num(0)
    ELSE LET rest == DefinedTotal(SubSeq(s, 1, Len(s) - 1))
         IN  IF IsNum(s[Len(s)]) THEN FAdd(rest, s[Len(s)]) ELSE rest

\* C5: the aggregate percent fields are ratios of the column sums of the
\* defined values, undefined when the denominator sum is 0; rows (100, 50)
\* and (0, 50) give an aggregate percent difference of 0.
C5_AggregateRatioOfSums ==
    pc = "totals" =>
        LET s1 == DefinedTotal(Col(base, "PERIODO_1"))
            s2 == DefinedTotal(Col(base, "PERIODO_2"))
            so == DefinedTotal(Col(base, "OBJETIVO"))
        IN  /\ Tot("%DIF") = IF s2 = Num(0) THEN NaN ELSE FDiv(FSub(s1, s2), s2)
            /\ Tot("%OBJ") = IF so = Num(0) THEN NaN ELSE FDiv(s1, so)
            /\ (RawP1 = <<A(100), A(0)>> /\ RawP2 = <<A(50), A(50)>>)
                  => Tot("%DIF") = Num(0)

C5_Witness ==
    /\ pc = "totals"
    /\ RawP1 = <<A(100), A(0)>>
    /\ RawP2 = <<A(50), A(50)>>
    /\ Col(base, "%DIF") = <<Num(1), Num(-1)>>
    /\ Tot("%DIF") = Num(0)

ScenarioLoaded ==
    /\ RawP1 = <<A(1000), A(500)>>
    /\ RawP2 = <<A(800), A(500)>>
    /\ RawObj = <<A(1200), A(400)>>

\* C9: rows T1 (1000, 800, 1200) and T2 (500, 500, 400) give T1 difference
\* 200, 25%, gap 200, 1000/1200; T2 difference 0, 0%, gap -100, 125%; and an
\* aggregate of 1500, 1300, 200/1300 and 1500/1600.
C9_EndToEndScenario ==
    (pc = "totals" /\ ScenarioLoaded) =>
        /\ Col(base, "DIF") = <<Num(200), Num(0)>>
        /\ Col(base, "%DIF") = <<Rat(25, 100), Num(0)>>
        /\ Col(base, "DIF_OBJ_P1") = <<Num(200), Num(-100)>>
        /\ Col(base, "%OBJ") = <<Rat(1000, 1200), Rat(125, 100)>>
        /\ Tot("PERIODO_1") = Num(1500)
        /\ Tot("PERIODO_2") = Num(1300)
        /\ Tot("%DIF") = Rat(200, 1300)
        /\ Tot("%OBJ") = Rat(1500, 1600)

C9_Witness == pc = "totals" /\ ScenarioLoaded /\ Tot("PERIODO_1") = Num(1500)

\* C10: a cell that fails coercion is undefined, not zero, and every per-row
\* formula that uses an undefined operand is undefined.
C10_UndefinedPropagates ==
    MonthDone =>
        \A i \in 1..NRows(df_raw) :
            /\ FailsCoercion(RawP1[i]) => IsNaN(Col(base, "PERIODO_1")[i])
            /\ FailsCoercion(RawP2[i]) => IsNaN(Col(base, "PERIODO_2")[i])
            /\ FailsCoercion(RawObj[i]) => IsNaN(Col(base, "OBJETIVO")[i])
            /\ (FailsCoercion(RawP1[i]) \/ FailsCoercion(RawP2[i]))
                  => IsNaN(Col(base, "DIF")[i]) /\ IsNaN(Col(base, "%DIF")[i])
            /\ (FailsCoercion(RawObj[i]) \/ FailsCoercion(RawP1[i]))
                  => IsNaN(Col(base, "DIF_OBJ_P1")[i]) /\ IsNaN(Col(base, "%OBJ")[i])

C10_Witness ==
    /\ pc = "month"
    /\ \E i \in 1..NRows(df_raw) :
          /\ RawP1[i] = NotANumber /\ RawP2[i] = A(50) /\ RawObj[i] = A(400)
          /\ IsNaN(Col(base, "DIF")[i])
          /\ IsNaN(Col(base, "%OBJ")[i])
    /\ \E i \in 1..NRows(df_raw) :
          /\ RawP1[i] = A(100) /\ RawP2[i] = Blank
          /\ IsNaN(Col(base, "%DIF")[i])

----------------------------------------------------------------------------
(* Properties of the pass (checked under Spec)                             *)

\* C6: a pass over a readable, non-empty sheet never raises, whatever the
\* column mapping.
C6_PassNeverRaises == pc # "raised"

BeforeLoad == {"start", "source", "stop_info"}

NothingComputed ==
    /\ mapping = NoMapping
    /\ base = NoDf
    /\ totales = NoDf

StoppedByGuard == {"stop_error", "stop_warning"}

\* C7: a pass whose load failed is stopped with just the error on the page,
\* a pass whose selected sheet is empty is stopped with just the warning, in
\* both no mapping, table or download exists, and the only step such a pass
\* is followed by is the start of the next pass.
C7_FailedPassStops ==
    /\ [](/\ (pc \notin BeforeLoad /\ sheets = NoSheets)
                => pc = "stop_error" /\ out = <<Msg("error")>> /\ NothingComputed
          /\ (sheet # "" /\ IsEmpty(df_raw))
                => pc = "stop_warning" /\ out = <<Msg("warning")>> /\ NothingComputed)
    /\ [][(pc \in StoppedByGuard) => (out' = <<>> /\ pc' = "start")]_vars

C7_Witness ==
    /\ pc = "stop_error"
    /\ excel_obj = LocalFile(LocalPath)
    /\ disk = "corrupto"
    /\ out = <<Msg("error")>>

\* C8: what a pass has loaded is the content the input file has at that pass.
C8_LoadedFromCurrentFile ==
    (pc \notin BeforeLoad /\ sheets # NoSheets)
        => /\ ContentOf(excel_obj) \in Readable
           /\ sheets = ReadExcel(ContentOf(excel_obj))

====
